---- MODULE Spec2Model ----
(***************************************************************************)
(* envelope: compile a .env file from env/.env (common) plus either        *)
(* env/<name>/.env (directory mode) or env/.env.<name> (flat mode).        *)
(*                                                                         *)
(* The model follows the current main.ts (the version with flat mode and   *)
(* assertSingleEnvMode).  A JavaScript string is a sequence of one         *)
(* character strings, so that validateEnvString, dotenv.parse and the      *)
(* serialisation in compileDotEnv are computed character by character.     *)
(***************************************************************************)
EXTENDS Naturals, Sequences, FiniteSets, TLC

(***************************************************************************)
(* Characters and strings                                                  *)
(***************************************************************************)
NL == "\n"

\* JavaScript \s restricted to the characters the model uses
IsSpace(c) == c \in {" ", "\t", "\r", NL}

\* JavaScript . (anything but a line terminator)
IsDot(c) == c \notin {NL, "\r"}

LowerChars ==
    {"a","b","c","d","e","f","g","h","i","j","k","l","m",
     "n","o","p","q","r","s","t","u","v","w","x","y","z"}

UpperChars ==
    {"A","B","C","D","E","F","G","H","I","J","K","L","M",
     "N","O","P","Q","R","S","T","U","V","W","X","Y","Z"}

DigitChars == {"0","1","2","3","4","5","6","7","8","9"}

\* [A-Za-z_]
IsIdentStart(c) == c \in LowerChars \cup UpperChars \cup {"_"}

\* [A-Za-z0-9_]
IsIdentChar(c) == IsIdentStart(c) \/ c \in DigitChars

\* [\w.-], the key class of dotenv's LINE expression
IsKeyChar(c) == IsIdentChar(c) \/ c \in {".", "-"}

\* s.slice(i) with i counted from 1
Drop(s, i) == SubSeq(s, i, Len(s))

\* s.startsWith(p)
StartsWith(s, p) == Len(s) >= Len(p) /\ SubSeq(s, 1, Len(p)) = p

\* the number of leading characters of s that satisfy \s
RECURSIVE LeadSpaces(_)
LeadSpaces(s) ==
    IF s = <<>> \/ ~IsSpace(Head(s)) THEN 0 ELSE 1 + LeadSpaces(Tail(s))

\* the number of trailing characters of s that satisfy \s
RECURSIVE TrailSpaces(_)
TrailSpaces(s) ==
    IF s = <<>> \/ ~IsSpace(s[Len(s)]) THEN 0
    ELSE 1 + TrailSpaces(SubSeq(s, 1, Len(s) - 1))

\* String.prototype.trim
Trim(s) ==
    LET a == LeadSpaces(s)
    IN  IF a = Len(s) THEN <<>> ELSE SubSeq(s, a + 1, Len(s) - TrailSpaces(s))

\* the index of the first c in s at or after position i, 0 when there is none
RECURSIVE IndexFrom(_, _, _)
IndexFrom(s, c, i) ==
    IF i > Len(s) THEN 0
    ELSE IF s[i] = c THEN i
    ELSE IndexFrom(s, c, i + 1)

\* s.split('\n')
RECURSIVE SplitLines(_)
SplitLines(s) ==
    LET i == IndexFrom(s, NL, 1)
    IN  IF i = 0 THEN <<s>>
        ELSE <<SubSeq(s, 1, i - 1)>> \o SplitLines(Drop(s, i + 1))

\* parts.join(sep)
RECURSIVE Join(_, _)
Join(parts, sep) ==
    IF parts = <<>> THEN <<>>
    ELSE IF Len(parts) = 1 THEN parts[1]
    ELSE parts[1] \o sep \o Join(Tail(parts), sep)

(***************************************************************************)
(* validateEnvString                                                       *)
(***************************************************************************)
\* every character of s satisfies .
RECURSIVE AllDot(_)
AllDot(s) == s = <<>> \/ (IsDot(Head(s)) /\ AllDot(Tail(s)))

\* the number of leading characters of s in [A-Za-z0-9_]
RECURSIVE LeadIdent(_)
LeadIdent(s) ==
    IF s = <<>> \/ ~IsIdentChar(Head(s)) THEN 0 ELSE 1 + LeadIdent(Tail(s))

\* \s*#.*   anchored at both ends
MatchesComment(line) ==
    LET r == Drop(line, LeadSpaces(line) + 1)
    IN  r # <<>> /\ Head(r) = "#" /\ AllDot(Tail(r))

\* \s*$     anchored at both ends
MatchesBlank(line) == LeadSpaces(line) = Len(line)

\* [A-Za-z_][A-Za-z0-9_]*\s*=\s*.*   anchored at both ends
MatchesAssignment(line) ==
    /\ line # <<>>
    /\ IsIdentStart(Head(line))
    /\ LET afterIdent == Drop(line, LeadIdent(line) + 1)
           afterSpace == Drop(afterIdent, LeadSpaces(afterIdent) + 1)
       IN  /\ afterSpace # <<>>
           /\ Head(afterSpace) = "="
           /\ LET rest == Tail(afterSpace)
              IN  AllDot(Drop(rest, LeadSpaces(rest) + 1))

\* the line expression without its blank-line alternative
ValidLineNotBlank(line) == MatchesComment(line) \/ MatchesAssignment(line)

\* validLineRegex.test(line)
ValidLine(line) ==
    MatchesComment(line) \/ MatchesBlank(line) \/ MatchesAssignment(line)

\* the loop of validateEnvString from line i on: 0 when every line from i on
\* is valid, else the 1-based number of the first line that is not
RECURSIVE FirstInvalid(_, _)
FirstInvalid(lines, i) ==
    IF i > Len(lines) THEN 0
    ELSE IF ~ValidLine(Trim(lines[i])) THEN i
    ELSE FirstInvalid(lines, i + 1)

\* validateEnvString(envVars): returns true, or throws
\* `invalid .env format at line ${i + 1}: ${line}`
validateEnvString(envVars) ==
    LET lines == SplitLines(envVars)
        bad   == FirstInvalid(lines, 1)
    IN  IF bad = 0 THEN [ok |-> TRUE, line |-> 0, content |-> <<>>]
        ELSE [ok |-> FALSE, line |-> bad, content |-> Trim(lines[bad])]

(***************************************************************************)
(* dotenv.parse (dotenv 16).  Its LINE expression, flags m and g, reads,    *)
(* from the start of a line: white space, an optional `export` and white   *)
(* space, the key [\w.-]+, then `=` between white space (or `:` and white  *)
(* space), then an optional value, which is the first that fits of a       *)
(* single-quoted, a double-quoted, a backtick-quoted string (each after    *)
(* white space, each running to its closing quote, over line ends too) and *)
(* a run of [^#\r\n]; then white space, an optional `#` comment and the    *)
(* end of the line.  The matches are taken left to right, each assigning   *)
(* obj[key] = value.  Both callers pass text that validateEnvString has    *)
(* accepted, in which a line that starts a match is an identifier, white   *)
(* space and `=`: the `export` prefix and the `:` separator never match    *)
(* there and are left out.  The model's alphabet has no backslash, so a    *)
(* quoted value ends at the next quote.  An object is the sequence of its  *)
(* [key, value] entries in insertion order (Object.entries); keys are      *)
(* identifiers, never integer-like.                                        *)
(***************************************************************************)
QuoteChars == {"`", "'", "\""}

\* lines.replace(/\r\n?/mg, '\n')
RECURSIVE NormalizeNewlines(_)
NormalizeNewlines(s) ==
    IF s = <<>> THEN <<>>
    ELSE IF Head(s) = "\r"
         THEN IF Len(s) >= 2 /\ s[2] = NL
              THEN <<NL>> \o NormalizeNewlines(Drop(s, 3))
              ELSE <<NL>> \o NormalizeNewlines(Tail(s))
    ELSE <<Head(s)>> \o NormalizeNewlines(Tail(s))

\* an assignment that leaves the value of an existing key as it is
SetKeyKeepingFirst(obj, key, value) ==
    IF \E i \in 1..Len(obj) : obj[i][1] = key THEN obj
    ELSE Append(obj, <<key, value>>)

\* an assignment that moves an existing key to the end
SetKeyMovingLast(obj, key, value) ==
    Append(SelectSeq(obj, LAMBDA e : e[1] # key), <<key, value>>)

\* obj[key] = value: an existing key keeps its place
RECURSIVE SetKey(_, _, _)
SetKey(obj, key, value) ==
    IF obj = <<>> THEN << <<key, value>> >>
    ELSE IF Head(obj)[1] = key THEN << <<key, value>> >> \o Tail(obj)
    ELSE <<Head(obj)>> \o SetKey(Tail(obj), key, value)

HasKey(obj, key) == \E i \in 1..Len(obj) : obj[i][1] = key

\* obj[key], for a key of obj
GetKey(obj, key) == obj[CHOOSE i \in 1..Len(obj) : obj[i][1] = key][2]

\* the number of characters of s from position i on that satisfy \s
RECURSIVE SpacesFrom(_, _)
SpacesFrom(s, i) ==
    IF i > Len(s) \/ ~IsSpace(s[i]) THEN 0 ELSE 1 + SpacesFrom(s, i + 1)

\* the number of characters of s from position i on in [\w.-]
RECURSIVE KeyCharsFrom(_, _)
KeyCharsFrom(s, i) ==
    IF i > Len(s) \/ ~IsKeyChar(s[i]) THEN 0 ELSE 1 + KeyCharsFrom(s, i + 1)

\* the number of characters of s from position i on in [^#\r\n]
RECURSIVE PlainFrom(_, _)
PlainFrom(s, i) ==
    IF i > Len(s) \/ s[i] \in {"#", "\r", NL} THEN 0
    ELSE 1 + PlainFrom(s, i + 1)

\* the tail of LINE (white space, an optional # comment, the end of a line)
\* matches at position i
TailMatches(s, i) ==
    LET m == SpacesFrom(s, i)
    IN  \/ i + m > Len(s)
        \/ s[i + m] = "#"
        \/ \E j \in 0..(m - 1) : s[i + j] = NL

\* the position after the closing quote of a quoted value that starts (after
\* white space) at position q, or 0 when that alternative does not match
QuotedEnd(s, q) ==
    LET o == q + SpacesFrom(s, q)
    IN  IF o > Len(s) \/ s[o] \notin QuoteChars THEN 0
        ELSE LET c == IndexFrom(s, s[o], o + 1)
             IN  IF c # 0 /\ TailMatches(s, c + 1) THEN c + 1 ELSE 0

\* value.trim() and value.replace(/^(['"`])([\s\S]*)\1$/mg, '$2')
Unquote(raw) ==
    LET v == Trim(raw)
    IN  IF Len(v) >= 2 /\ v[1] \in QuoteChars /\ v[Len(v)] = v[1]
        THEN SubSeq(v, 2, Len(v) - 1)
        ELSE v

\* the while loop of parse, with lastIndex at the line start p
RECURSIVE ParseFrom(_, _, _)
ParseFrom(s, p, obj) ==
    IF p > Len(s) THEN obj
    ELSE
      LET a    == p + SpacesFrom(s, p)
          k    == KeyCharsFrom(s, a)
          e    == a + k + SpacesFrom(s, a + k)
          nl   == IndexFrom(s, NL, p)
      IN  IF a > Len(s) THEN obj
          ELSE IF k = 0 \/ e > Len(s) \/ s[e] # "="
               THEN IF nl = 0 THEN obj ELSE ParseFrom(s, nl + 1, obj)
          ELSE
            LET q     == e + 1
                qe    == QuotedEnd(s, q)
                stop  == IF qe # 0 THEN qe ELSE q + PlainFrom(s, q)
                raw   == SubSeq(s, q, stop - 1)
                next  == IndexFrom(s, NL, stop)
                obj2  == SetKey(obj, SubSeq(s, a, a + k - 1), Unquote(raw))
            IN  IF next = 0 THEN obj2 ELSE ParseFrom(s, next + 1, obj2)

\* dotenv.parse(src)
DotenvParse(src) == ParseFrom(NormalizeNewlines(src), 1, <<>>)

\* the entries joined by a space instead of a line feed
SerializeOnOneLine(obj) ==
    Join([i \in 1..Len(obj) |-> obj[i][1] \o <<"=">> \o obj[i][2]], <<" ">>)

\* Object.entries(compiledEnv).map(([key, value]) => `${key}=${value}`).join('\n')
Serialize(obj) ==
    Join([i \in 1..Len(obj) |-> obj[i][1] \o <<"=">> \o obj[i][2]], <<NL>>)

(***************************************************************************)
(* Paths and the file system                                               *)
(*                                                                         *)
(* A path is the sequence of its components below the file system root;    *)
(* the root is the empty path.  fs maps each existing path to its node, a  *)
(* directory or a regular file with its text.  listing gives, for a        *)
(* directory that has children, the order in which readdirSync returns     *)
(* their names.                                                            *)
(***************************************************************************)
VARIABLES fs, listing, cwd, last

vars == <<fs, listing, cwd, last>>

EnvDirName  == <<"e","n","v">>
DotEnvName  == <<".","e","n","v">>
NodeModules == <<"n","o","d","e","_","m","o","d","u","l","e","s">>
FlatPrefix  == <<".","e","n","v",".">>

DirNode == [kind |-> "dir", text |-> <<>>]

FileNode(text) == [kind |-> "file", text |-> text]

\* fs.existsSync(path)
existsSync(path) == path \in DOMAIN fs

\* fs.existsSync(path) && fs.statSync(path).isDirectory()
IsDirectory(path) == path \in DOMAIN fs /\ fs[path].kind = "dir"

\* path.dirname(dir); the root is its own parent
Dirname(dir) == IF dir = <<>> THEN <<>> ELSE SubSeq(dir, 1, Len(dir) - 1)

\* path.join(dir, name), for a name that is one component other than . and ..
PathJoin(dir, name) == Append(dir, name)

\* the string of a path: /a/b, and / for the root
RECURSIVE PathTail(_)
PathTail(path) ==
    IF path = <<>> THEN <<>> ELSE <<"/">> \o Head(path) \o PathTail(Tail(path))

PathStr(path) == IF path = <<>> THEN <<"/">> ELSE PathTail(path)

\* fs.readdirSync(dir, { withFileTypes: true })
readdirSync(dir) ==
    LET names == IF dir \in DOMAIN listing THEN listing[dir] ELSE <<>>
    IN  [i \in 1..Len(names) |->
            [name |-> names[i], kind |-> fs[Append(dir, names[i])].kind]]

\* a write that appends to the text already there
WriteFileAppending(path, text) ==
    [q \in DOMAIN fs \cup {path} |->
        IF q # path THEN fs[q]
        ELSE IF path \in DOMAIN fs THEN FileNode(fs[path].text \o <<NL>> \o text)
        ELSE FileNode(text)]

\* fs.writeFileSync(path, text, 'utf-8') on a path that is no directory
WriteFile(path, text) ==
    [q \in DOMAIN fs \cup {path} |-> IF q = path THEN FileNode(text) ELSE fs[q]]

(***************************************************************************)
(* Errors.  A thrown Error is a record of its kind and of the values its   *)
(* message interpolates.                                                   *)
(***************************************************************************)
NoError == [kind |-> "none", args |-> <<>>]

\* 'Could not find env directory'
ConfigNotFound == [kind |-> "ConfigNotFound", args |-> <<>>]

\* `Incompatible environment modes detected in '${rootEnvDir}': found both
\* subdirectories (directory mode) and .env.* files (flat mode). ...`
IncompatibleModes(rootEnvDir) ==
    [kind |-> "IncompatibleModes", args |-> <<PathStr(rootEnvDir)>>]

\* `Could not find environment '${env}': no directory '${envSubDir}' or file
\* '${flatEnvFile}'`
EnvironmentNotFound(env, envSubDir, flatEnvFile) ==
    [kind |-> "EnvironmentNotFound",
     args |-> <<env, PathStr(envSubDir), PathStr(flatEnvFile)>>]

\* `invalid .env format at line ${i + 1}: ${line}`
InvalidFormat(v) == [kind |-> "InvalidFormat", args |-> <<v.line, v.content>>]

\* 'Oopsie'
NoOutputFile == [kind |-> "Oopsie", args |-> <<>>]

\* 'Could not parse ENVELOPE_ENV'
NoCurrentEnv == [kind |-> "CouldNotParse", args |-> <<>>]

\* EISDIR, thrown by readFileSync and writeFileSync on a directory
IsADirectory(path) == [kind |-> "EISDIR", args |-> <<PathStr(path)>>]

(***************************************************************************)
(* main.ts                                                                 *)
(***************************************************************************)
\* getRootDir(), the loop from currentDir on: the root directory, or
\* <<"none">> where the code throws 'Could not find env directory'
\* the search stopping at any entry named env, directory or not
RECURSIVE RootFromAnyEntry(_)
RootFromAnyEntry(currentDir) ==
    IF existsSync(Append(currentDir, EnvDirName)) THEN <<"found", currentDir>>
    ELSE IF Dirname(currentDir) = currentDir THEN <<"none">>
    ELSE RootFromAnyEntry(Dirname(currentDir))

RECURSIVE RootFrom(_)
RootFrom(currentDir) ==
    IF IsDirectory(Append(currentDir, EnvDirName)) THEN <<"found", currentDir>>
    ELSE IF Dirname(currentDir) = currentDir THEN <<"none">>
    ELSE RootFrom(Dirname(currentDir))

getRootDir == RootFrom(cwd)

\* getRootEnvDir(), where getRootDir() returns
getRootEnvDir == Append(getRootDir[2], EnvDirName)

\* /^\.env\../.test(name)
IsFlatName(name) ==
    /\ StartsWith(name, FlatPrefix)
    /\ Len(name) > Len(FlatPrefix)
    /\ IsDot(name[Len(FlatPrefix) + 1])

\* any directory, node_modules too
IsAnyDirEntry(e) == e.kind = "dir"

\* e.isDirectory() && e.name !== 'node_modules'
IsSubdirEntry(e) == e.kind = "dir" /\ e.name # NodeModules

\* e.isFile() && /^\.env\../.test(e.name)
IsFlatEntry(e) == e.kind = "file" /\ IsFlatName(e.name)

\* assertSingleEnvMode without its check: it never throws
AssertNothing(rootEnvDir) == TRUE

\* assertSingleEnvMode(rootEnvDir): TRUE where it returns, FALSE where it throws
assertSingleEnvMode(rootEnvDir) ==
    LET entries      == readdirSync(rootEnvDir)
        hasSubdirs   == \E i \in 1..Len(entries) : IsSubdirEntry(entries[i])
        hasFlatFiles == \E i \in 1..Len(entries) : IsFlatEntry(entries[i])
    IN  ~(hasSubdirs /\ hasFlatFiles)

SyntheticEnv == <<"E","N","V","E","L","O","P","E","_","E","N","V","=">>
SyntheticDir == <<"E","N","V","E","L","O","P","E","_","D","I","R","=">>

\* a loop that logs what it reads and reads only when it logs
RECURSIVE ReadEnvFilesWhenLoud(_, _, _, _, _)
ReadEnvFilesWhenLoud(envFiles, i, envVars, notices, silent) ==
    IF i > Len(envFiles) THEN [envVars |-> envVars, notices |-> notices, err |-> NoError]
    ELSE IF ~existsSync(envFiles[i].path) \/ fs[envFiles[i].path].kind = "dir" \/ silent
    THEN ReadEnvFilesWhenLoud(envFiles, i + 1, envVars, notices, silent)
    ELSE ReadEnvFilesWhenLoud(envFiles, i + 1,
                              envVars \o <<NL>> \o fs[envFiles[i].path].text,
                              Append(notices, <<"Reading", envFiles[i].name,
                                                PathStr(envFiles[i].path)>>),
                              silent)

\* the for loop of getCompiledEnv over envFiles from index i on: the text, the
\* notices logged, and the error of a read that throws
RECURSIVE ReadEnvFiles(_, _, _, _, _)
ReadEnvFiles(envFiles, i, envVars, notices, silent) ==
    IF i > Len(envFiles) THEN [envVars |-> envVars, notices |-> notices, err |-> NoError]
    ELSE
      LET file == envFiles[i]
      IN  IF ~existsSync(file.path)
          THEN ReadEnvFiles(envFiles, i + 1, envVars, notices, silent)
          ELSE
            LET noted == IF silent THEN notices
                         ELSE Append(notices, <<"Reading", file.name, PathStr(file.path)>>)
            IN  IF fs[file.path].kind = "dir"
                THEN [envVars |-> envVars, notices |-> noted, err |-> IsADirectory(file.path)]
                ELSE ReadEnvFiles(envFiles, i + 1,
                                  envVars \o <<NL>> \o fs[file.path].text, noted, silent)

\* the two places an environment may live in, and which of them exists
ResolveEnv(rootEnvDir, env) ==
    LET envSubDir       == PathJoin(rootEnvDir, env)
        flatEnvFile     == PathJoin(rootEnvDir, FlatPrefix \o env)
        isDirectoryMode == IsDirectory(envSubDir)
    IN  [envSubDir |-> envSubDir, flatEnvFile |-> flatEnvFile,
         isDirectoryMode |-> isDirectoryMode,
         isFlatMode |-> ~isDirectoryMode /\ existsSync(flatEnvFile)]

\* a resolution that never reports a missing environment
NeverNotFound(r) == FALSE

\* !isDirectoryMode && !isFlatMode
NotFound(r) == ~r.isDirectoryMode /\ ~r.isFlatMode

\* envDir taken to be the subdirectory in flat mode too
EnvDirAlwaysSubDir(r, rootEnvDir) == r.envSubDir

\* const envDir = isDirectoryMode ? envSubDir : rootEnvDir
EnvDirOf(r, rootEnvDir) == IF r.isDirectoryMode THEN r.envSubDir ELSE rootEnvDir

\* a seed without the ENVELOPE_ENV line
SeedWithoutEnv(env, envDir) == SyntheticDir \o PathStr(envDir) \o <<NL>>

\* the text envVars starts with
Seed(env, envDir) ==
    SyntheticEnv \o env \o <<NL>> \o SyntheticDir \o PathStr(envDir) \o <<NL>>

\* envFiles without the common file
EnvFilesOnlyEnvironment(r, rootEnvDir, env) ==
    << [path |-> IF r.isDirectoryMode
                 THEN PathJoin(r.envSubDir, DotEnvName)
                 ELSE r.flatEnvFile,
        name |-> env] >>

\* envFiles with the environment file before the common file
EnvFilesSwapped(r, rootEnvDir, env) ==
    << [path |-> IF r.isDirectoryMode
                 THEN PathJoin(r.envSubDir, DotEnvName)
                 ELSE r.flatEnvFile,
        name |-> env],
       [path |-> PathJoin(rootEnvDir, DotEnvName), name |-> <<"common">>] >>

\* const envFiles = [common, environment]
EnvFiles(r, rootEnvDir, env) ==
    << [path |-> PathJoin(rootEnvDir, DotEnvName), name |-> <<"common">>],
       [path |-> IF r.isDirectoryMode
                 THEN PathJoin(r.envSubDir, DotEnvName)
                 ELSE r.flatEnvFile,
        name |-> env] >>

\* getCompiledEnv(env, { silent }): the object dotenv.parse returns, the
\* notices logged, and the error thrown (kind "none" where it returns)
getCompiledEnv(env, silent) ==
    IF getRootDir[1] = "none"
    THEN [obj |-> <<>>, notices |-> <<>>, err |-> ConfigNotFound]
    ELSE
      LET rootEnvDir == getRootEnvDir
          r          == ResolveEnv(rootEnvDir, env)
      IN  IF ~assertSingleEnvMode(rootEnvDir)
          THEN [obj |-> <<>>, notices |-> <<>>, err |-> IncompatibleModes(rootEnvDir)]
          ELSE IF NotFound(r)
          THEN [obj |-> <<>>, notices |-> <<>>,
                err |-> EnvironmentNotFound(env, r.envSubDir, r.flatEnvFile)]
          ELSE
            LET read  == ReadEnvFiles(EnvFiles(r, rootEnvDir, env), 1,
                                      Seed(env, EnvDirOf(r, rootEnvDir)), <<>>, silent)
                valid == validateEnvString(read.envVars)
            IN  IF read.err.kind # "none"
                THEN [obj |-> <<>>, notices |-> read.notices, err |-> read.err]
                ELSE IF ~valid.ok
                THEN [obj |-> <<>>, notices |-> read.notices, err |-> InvalidFormat(valid)]
                ELSE [obj |-> DotenvParse(read.envVars),
                      notices |-> read.notices, err |-> NoError]

\* compileDotEnv(env, silent): the compiled text, with the notices and error
\* of getCompiledEnv
compileDotEnv(env, silent) ==
    LET c == getCompiledEnv(env, silent)
    IN  [text |-> Serialize(c.obj), notices |-> c.notices, err |-> c.err]

\* Invocations run one at a time (the program is a synchronous command line
\* process): last holds the result of the invocation that has just run, and
\* NoResult once the shell is back at its prompt.
\* the result of one invocation: the subcommand and its arguments, the exit
\* status, the error caught, what it displays, and the notices it logs
Result(op, env, silent, exit, err, out, notices) ==
    [op |-> op, env |-> env, silent |-> silent, exit |-> exit, err |-> err,
     out |-> out, notices |-> notices]

\* a get that also writes what it compiled to <root>/.env
GetPersisting(env, silent) ==
    LET c == compileDotEnv(env, silent)
    IN  /\ last.op = "none"
        /\ last' = IF c.err.kind = "none"
                   THEN Result("get", env, silent, 0, NoError, c.text, c.notices)
                   ELSE Result("get", env, silent, 0, c.err, <<>>, c.notices)
        /\ fs' = IF c.err.kind = "none"
                      /\ ~IsDirectory(Append(getRootDir[2], DotEnvName))
                 THEN WriteFile(Append(getRootDir[2], DotEnvName), c.text)
                 ELSE fs
        /\ UNCHANGED <<listing, cwd>>

\* envelope get <environment> [--silent]; the catch does not exit
Get(env, silent) ==
    LET c == compileDotEnv(env, silent)
    IN  /\ last.op = "none"
        /\ last' = IF c.err.kind = "none"
                   THEN Result("get", env, silent, 0, NoError, c.text, c.notices)
                   ELSE Result("get", env, silent, 0, c.err, <<>>, c.notices)
        /\ UNCHANGED <<fs, listing, cwd>>

\* the output path taken from the working directory
OutputInCwd == PathJoin(cwd, DotEnvName)

\* path.join(rootDir, '.env'), where getRootDir() returns
OutputPath == PathJoin(getRootDir[2], DotEnvName)

\* a use that truncates <root>/.env before it compiles
UseTruncatingFirst(env, silent) ==
    LET c     == compileDotEnv(env, silent)
        begun == IF silent THEN <<>> ELSE << <<"Compiling", env>> >>
        done  == IF silent THEN <<>>
                 ELSE << <<"Compiled", env, PathStr(getRootDir[2])>> >>
    IN  /\ last.op = "none"
        /\ IF c.err.kind = "ConfigNotFound" \/ IsDirectory(OutputPath)
           THEN /\ last' = Result("use", env, silent, 1,
                                  IF c.err.kind = "none" THEN IsADirectory(OutputPath)
                                  ELSE c.err, <<>>, begun \o c.notices)
                /\ UNCHANGED <<fs, listing, cwd>>
           ELSE /\ fs' = WriteFile(OutputPath, c.text)
                /\ last' = IF c.err.kind = "none"
                           THEN Result("use", env, silent, 0, NoError, <<>>,
                                       begun \o c.notices \o done)
                           ELSE Result("use", env, silent, 1, c.err, <<>>,
                                       begun \o c.notices)
                /\ UNCHANGED <<listing, cwd>>

\* envelope use <environment> [--silent]
Use(env, silent) ==
    LET c       == compileDotEnv(env, silent)
        begun   == IF silent THEN <<>> ELSE << <<"Compiling", env>> >>
        target  == OutputPath
        done    == IF silent THEN <<>>
                   ELSE << <<"Compiled", env, PathStr(getRootDir[2])>> >>
    IN  /\ last.op = "none"
        /\ IF c.err.kind # "none"
           THEN /\ last' = Result("use", env, silent, 1, c.err, <<>>, begun \o c.notices)
                /\ UNCHANGED <<fs, listing, cwd>>
           ELSE IF IsDirectory(target)
           THEN /\ last' = Result("use", env, silent, 1, IsADirectory(target), <<>>,
                                  begun \o c.notices \o done)
                /\ UNCHANGED <<fs, listing, cwd>>
           ELSE /\ fs' = WriteFile(target, c.text)
                /\ last' = Result("use", env, silent, 0, NoError, <<>>,
                                  begun \o c.notices \o done)
                /\ UNCHANGED <<listing, cwd>>

\* entries.map(e => e.name)
Names(entries) == [i \in 1..Len(entries) |-> entries[i].name]

\* the names cut after four characters instead of five
Slice4(names) == [i \in 1..Len(names) |-> Drop(names[i], 5)]

\* names.map(name => name.slice(5))
Slice5(names) == [i \in 1..Len(names) |-> Drop(names[i], 6)]

\* a list that leaves the flat files out
EnvironmentsOnlySubdirs(rootEnvDir) ==
    Names(SelectSeq(readdirSync(rootEnvDir), IsSubdirEntry))

\* the environments of list: the subdirectories, then the flat files
Environments(rootEnvDir) ==
    LET entries == readdirSync(rootEnvDir)
    IN  Names(SelectSeq(entries, IsSubdirEntry))
        \o Slice5(Names(SelectSeq(entries, IsFlatEntry)))

\* envelope list
List ==
    /\ last.op = "none"
    /\ last' = IF getRootDir[1] = "none"
               THEN Result("list", <<>>, FALSE, 1, ConfigNotFound, <<>>, <<>>)
               ELSE IF ~assertSingleEnvMode(getRootEnvDir)
               THEN Result("list", <<>>, FALSE, 1, IncompatibleModes(getRootEnvDir),
                           <<>>, <<>>)
               ELSE Result("list", <<>>, FALSE, 0, NoError,
                           Environments(getRootEnvDir), <<>>)
    /\ UNCHANGED <<fs, listing, cwd>>

\* the try block of current, where getRootDir() returns
CurrentIn(rootDir) ==
    LET envFilePath == PathJoin(rootDir, DotEnvName)
    IN  IF ~existsSync(envFilePath)
        THEN Result("current", <<>>, FALSE, 1, NoOutputFile, <<>>, <<>>)
        ELSE IF fs[envFilePath].kind = "dir"
        THEN Result("current", <<>>, FALSE, 1, IsADirectory(envFilePath), <<>>, <<>>)
        ELSE
          LET envString == fs[envFilePath].text
              valid     == validateEnvString(envString)
              parsed    == DotenvParse(envString)
          IN  IF ~valid.ok
              THEN Result("current", <<>>, FALSE, 1, InvalidFormat(valid), <<>>, <<>>)
              ELSE IF ~HasKey(parsed, <<"E","N","V","E","L","O","P","E","_","E","N","V">>)
                      \/ GetKey(parsed, <<"E","N","V","E","L","O","P","E","_","E","N","V">>) = <<>>
              THEN Result("current", <<>>, FALSE, 1, NoCurrentEnv, <<>>, <<>>)
              ELSE Result("current", <<>>, FALSE, 0, NoError,
                          GetKey(parsed, <<"E","N","V","E","L","O","P","E","_","E","N","V">>), <<>>)

\* envelope current
Current ==
    /\ last.op = "none"
    /\ last' = IF getRootDir[1] = "none"
               THEN Result("current", <<>>, FALSE, 1, ConfigNotFound, <<>>, <<>>)
               ELSE CurrentIn(getRootDir[2])
    /\ UNCHANGED <<fs, listing, cwd>>

(***************************************************************************)
(* The invocations checked                                                 *)
(***************************************************************************)
\* the most entries of the configuration directory in InitLayouts
MaxEntries == 3

\* the most lines of the common and the environment file together in InitTexts
MaxLines == 2

Dev   == <<"d","e","v">>
Prod  == <<"p","r","o","d">>
Sharp == <<"d","#">>
Nope  == <<"n","o">>

\* the environment names asked for
NameSet == {Dev, Prod, Sharp, NodeModules, Nope}

Root      == << <<"p">> >>
Child     == Append(Root, <<"c">>)
ConfigDir == Append(Root, EnvDirName)

\* an entry of the configuration directory: a file with its text, or a
\* directory with the texts of the .env inside it (none or one)
FileEntry(name, text) == [name |-> name, kind |-> "file", text |-> text, inner |-> <<>>]

DirEntry(name, inner) == [name |-> name, kind |-> "dir", text |-> <<>>, inner |-> inner]

EntryPool ==
    { FileEntry(DotEnvName, <<"A","=","1">>),
      DirEntry(Dev, << <<"A","=","2">> >>),
      DirEntry(Sharp, <<>>),
      DirEntry(NodeModules, <<>>),
      FileEntry(FlatPrefix \o Prod, <<"A","=","3">>),
      FileEntry(FlatPrefix \o Dev, <<"B","=","4">>),
      DirEntry(FlatPrefix \o Nope, <<>>) }

\* the lines a file is made of in InitTexts
LineSet ==
    { <<"A","=","1">>, <<" ","A"," ","="," ","2">>, <<"b","a","d">>, <<"E","N","V","E","L","O","P","E","_","E","N","V","=","x">>, <<"E","N","V","E","L","O","P","E","_","D","I","R","=","/","z">> }

\* the sequences over S of length n, and those of length at most n
SeqsOfLen(S, n) == [1..n -> S]

SeqsUpTo(S, n) == UNION {SeqsOfLen(S, k) : k \in 0..n}

NoRepeat(seq) == \A i, j \in 1..Len(seq) : seq[i].name = seq[j].name => i = j

\* the file system with the given working tree: the directories /, /p and
\* /p/c, the node given for /p/env (a set of no or one node), the entries of
\* /p/env in listing order, and the .env files given for /p and /p/c
TreeOf(envNode, entries, rootEnv, childEnv) ==
    LET E == {i \in 1..Len(entries) : envNode = {DirNode}}
        dirs  == {<<>>, Root, Child}
        top   == {Append(ConfigDir, entries[i].name) : i \in E}
        inner == {Append(Append(ConfigDir, entries[i].name), DotEnvName) :
                     i \in {k \in E : entries[k].inner # <<>>}}
        outs  == {Append(Root, DotEnvName) : x \in rootEnv}
                 \cup {Append(Child, DotEnvName) : x \in childEnv}
        NodeAt(q) ==
            IF q \in dirs THEN DirNode
            ELSE IF q = ConfigDir THEN CHOOSE n \in envNode : TRUE
            ELSE IF q = Append(Root, DotEnvName) THEN FileNode(CHOOSE t \in rootEnv : TRUE)
            ELSE IF q = Append(Child, DotEnvName) THEN FileNode(CHOOSE t \in childEnv : TRUE)
            ELSE IF q \in top
                 THEN LET e == entries[CHOOSE i \in E : Append(ConfigDir, entries[i].name) = q]
                      IN  [kind |-> e.kind, text |-> e.text]
            ELSE LET e == entries[CHOOSE i \in E :
                             Append(Append(ConfigDir, entries[i].name), DotEnvName) = q]
                 IN  FileNode(e.inner[1])
    IN  [q \in dirs \cup {ConfigDir : n \in envNode} \cup top \cup inner \cup outs
            |-> NodeAt(q)]

ListingOf(envNode, entries) ==
    IF envNode = {DirNode} /\ entries # <<>>
    THEN [d \in {ConfigDir} |-> [i \in 1..Len(entries) |-> entries[i].name]]
    ELSE [d \in {} |-> <<>>]

NoResult == Result("none", <<>>, FALSE, 0, NoError, <<>>, <<>>)

\* the text of a file of the given lines
TextOf(lines) == Join(lines, <<NL>>)

OldText == <<"O","L","D","=","1">>

\* every layout of at most MaxEntries entries of the pool, in every listing
\* order, invoked from the root with no output file yet
InitLayouts ==
    \E entries \in {x \in SeqsUpTo(EntryPool, MaxEntries) : NoRepeat(x)} :
        /\ fs = TreeOf({DirNode}, entries, {}, {})
        /\ listing = ListingOf({DirNode}, entries)
        /\ cwd = Root
        /\ last = NoResult

\* a directory-mode and a flat-mode layout whose common file and environment
\* file hold every text of at most MaxLines lines of LineSet together
InitTexts ==
    \E n \in 0..MaxLines, flat \in BOOLEAN :
      \E lines \in SeqsOfLen(LineSet, n), k \in 0..n :
        LET common  == TextOf(SubSeq(lines, 1, k))
            envText == TextOf(SubSeq(lines, k + 1, n))
            entries == IF flat
                       THEN <<FileEntry(DotEnvName, common),
                              FileEntry(FlatPrefix \o Prod, envText)>>
                       ELSE <<FileEntry(DotEnvName, common),
                              DirEntry(Dev, <<envText>>)>>
        IN  /\ fs = TreeOf({DirNode}, entries, {}, {})
            /\ listing = ListingOf({DirNode}, entries)
            /\ cwd = Root
            /\ last = NoResult

\* texts an earlier /p/.env may hold: one written by use, one whose
\* ENVELOPE_ENV is empty, one that assigns it twice, one with a malformed
\* fourth line, and a well-formed one without ENVELOPE_ENV
OutputTexts ==
    { OldText,
      <<"E","N","V","E","L","O","P","E","_","E","N","V","=">>,
      <<"E","N","V","E","L","O","P","E","_","E","N","V","=","a","\n","E","N","V","E","L","O","P","E","_","E","N","V","=","b">>,
      <<"A","=","1","\n","\n"," ","#","c","\n"," ","9","A","=","1"," ","\n","b","a","d">>,
      <<" ","#"," ","c","\n","\n","_","a","1"," ","="," ","x","=","y">> }

\* a tree with a directory added at path
WithDir(tree, path) ==
    [q \in DOMAIN tree \cup {path} |-> IF q = path THEN DirNode ELSE tree[q]]

\* invocations from the root and from a child directory, with /p/env a
\* directory, a file or absent, and with no /p/.env, an earlier one, or a
\* directory of that name
InitPlaces ==
    \E envNode \in {{DirNode}, {FileNode(<<>>)}, {}}, rootEnv \in {{}} \cup {{t} : t \in OutputTexts},
       start \in {Root, Child}, blocked \in BOOLEAN :
        LET entries == <<FileEntry(DotEnvName, <<"A","=","1">>), DirEntry(Dev, << <<"A","=","2">> >>),
                         DirEntry(Sharp, << <<"b","a","d">> >>),
                         DirEntry(Prod, << <<"Q","=","\"","#","\"">> >>)>>
        IN  /\ rootEnv # {} => ~blocked
            /\ fs = IF blocked
                    THEN WithDir(TreeOf(envNode, entries, {}, {}), Append(Root, DotEnvName))
                    ELSE TreeOf(envNode, entries, rootEnv, {})
            /\ listing = ListingOf(envNode, entries)
            /\ cwd = start
            /\ last = NoResult

\* the directories an env entry may sit in
Places == {<<>>, Root, Child}

\* a tree in which each place has a directory env holding the environment
\* dev, a regular file env, or no entry env
RootsTree(envAt) ==
    LET holders == {d \in Places : envAt[d] = "dir"}
        envs    == {Append(d, EnvDirName) : d \in {x \in Places : envAt[x] # "none"}}
        devs    == {Append(Append(d, EnvDirName), Dev) : d \in holders}
        inners  == {Append(q, DotEnvName) : q \in devs}
    IN  [q \in Places \cup envs \cup devs \cup inners |->
            IF q \in Places \cup devs THEN DirNode
            ELSE IF q \in inners THEN FileNode(<<"A","=","2">>)
            ELSE IF envAt[Dirname(q)] = "dir" THEN DirNode
            ELSE FileNode(<<>>)]

RootsListing(envAt) ==
    [d \in {Append(x, EnvDirName) : x \in {y \in Places : envAt[y] = "dir"}}
        |-> <<Dev>>]

\* every start directory on the path /p/c, with the env entry of each
\* directory on that path a directory, a regular file or absent
InitRoots ==
    \E envAt \in [Places -> {"none", "file", "dir"}], start \in Places :
        /\ fs = RootsTree(envAt)
        /\ listing = RootsListing(envAt)
        /\ cwd = start
        /\ last = NoResult

\* the process has exited and the shell is ready for the next invocation
Prompt ==
    /\ last.op # "none"
    /\ last' = NoResult
    /\ UNCHANGED <<fs, listing, cwd>>

Init == InitLayouts \/ InitTexts \/ InitPlaces \/ InitRoots

Next ==
    \/ \E env \in NameSet, silent \in BOOLEAN : Get(env, silent)
    \/ \E env \in NameSet, silent \in BOOLEAN : Use(env, silent)
    \/ List
    \/ Current
    \/ Prompt

Spec == Init /\ [][Next]_vars

(***************************************************************************)
(* Properties                                                              *)
(***************************************************************************)
\* the last invocation was a get or a use that compiled its environment
Compiled == last.op \in {"get", "use"} /\ last.err.kind = "none"

\* the text it compiled: displayed by get, written to <root>/.env by use
RootEnvFile == Append(getRootDir[2], DotEnvName)

CompiledText == IF last.op = "get" THEN last.out ELSE fs[RootEnvFile].text

\* the entries of the configuration directory, read off the file system
ConfigChildren ==
    {q \in DOMAIN fs : Len(q) = Len(getRootEnvDir) + 1
                       /\ SubSeq(q, 1, Len(getRootEnvDir)) = getRootEnvDir}

BaseName(q) == q[Len(q)]

\* a subdirectory other than node_modules
HasSubdirMarker ==
    \E q \in ConfigChildren : fs[q].kind = "dir" /\ BaseName(q) # NodeModules

\* a regular file named .env.<non-empty suffix>
HasFlatMarker ==
    \E q \in ConfigChildren :
        /\ fs[q].kind = "file"
        /\ Len(BaseName(q)) > 5
        /\ SubSeq(BaseName(q), 1, 5) = FlatPrefix

MixedLayout == getRootDir[1] = "found" /\ HasSubdirMarker /\ HasFlatMarker

\* C1: in a configuration directory that holds a subdirectory other than
\* node_modules and a file .env.<suffix>, list, get and use fail with
\* IncompatibleModes whatever name is asked for (never EnvironmentNotFound),
\* and no step changes the file system.
C1_MixedLayoutRejected ==
    /\ [](MixedLayout /\ last.op \in {"list", "get", "use"}
            => /\ last.err = IncompatibleModes(getRootEnvDir)
               /\ last.out = <<>>)
    /\ [][MixedLayout => fs' = fs]_vars

\* a use of a name that exists nowhere, rejected in a mixed layout
C1_Witness ==
    /\ MixedLayout
    /\ last.op = "use"
    /\ last.env = Nope
    /\ last.err.kind = "IncompatibleModes"

\* the lines of the file at a path, none when there is no such file
LinesOfFile(path) ==
    IF path \in DOMAIN fs /\ fs[path].kind = "file"
    THEN SplitLines(fs[path].text)
    ELSE <<>>

CommonFile == Append(getRootEnvDir, DotEnvName)

\* the environment's own file: <configDir>/<n>/.env where <configDir>/<n> is
\* a directory, else <configDir>/.env.<n>
EnvironmentFile(n) ==
    IF IsDirectory(Append(getRootEnvDir, n))
    THEN Append(Append(getRootEnvDir, n), DotEnvName)
    ELSE Append(getRootEnvDir, FlatPrefix \o n)

\* the lines of the common file, then those of the environment file
SourceLines(n) == LinesOfFile(CommonFile) \o LinesOfFile(EnvironmentFile(n))

IsAssignment(line) == MatchesAssignment(Trim(line))

\* the identifier before the = of an assignment
AssignedKey(line) == SubSeq(Trim(line), 1, LeadIdent(Trim(line)))

\* what follows the = of an assignment, without the white space around it
\* and without the quotes that enclose it (outside quotes the lines of the
\* files hold no #)
AssignedValue(line) ==
    LET raw == Trim(Drop(Trim(line), IndexFrom(Trim(line), "=", 1) + 1))
    IN  IF Len(raw) >= 2 /\ raw[1] \in QuoteChars /\ raw[Len(raw)] = raw[1]
        THEN SubSeq(raw, 2, Len(raw) - 1)
        ELSE raw

Assigns(lines, i, key) == IsAssignment(lines[i]) /\ AssignedKey(lines[i]) = key

\* the value of the last assignment to key among lines
LastAssigned(lines, key) ==
    AssignedValue(lines[CHOOSE i \in 1..Len(lines) :
        /\ Assigns(lines, i, key)
        /\ \A j \in (i + 1)..Len(lines) : ~Assigns(lines, j, key)])

\* the lines of text that assign key, as key=value
LinesFor(text, key) ==
    {i \in 1..Len(SplitLines(text)) : StartsWith(SplitLines(text)[i], key \o <<"=">>)}

HasLine(text, line) == \E i \in 1..Len(SplitLines(text)) : SplitLines(text)[i] = line

\* C2: every key assigned in the common or the environment file is compiled
\* to the value of its last assignment, in the order common file lines, then
\* environment file lines.
C2_LastAssignmentWins ==
    Compiled =>
        LET src == SourceLines(last.env)
        IN  \A i \in 1..Len(src) :
              IsAssignment(src[i]) =>
                LET key == AssignedKey(src[i])
                IN  /\ Cardinality(LinesFor(CompiledText, key)) = 1
                    /\ HasLine(CompiledText,
                               key \o <<"=">> \o LastAssigned(src, key))

\* a key the common file and the environment file give different values
C2_Witness ==
    /\ Compiled
    /\ \E i \in 1..Len(LinesOfFile(CommonFile)) :
         \E j \in 1..Len(LinesOfFile(EnvironmentFile(last.env))) :
            LET a == LinesOfFile(CommonFile)[i]
                b == LinesOfFile(EnvironmentFile(last.env))[j]
            IN  /\ IsAssignment(a) /\ IsAssignment(b)
                /\ AssignedKey(a) = AssignedKey(b)
                /\ AssignedValue(a) # AssignedValue(b)

KeyEnv == <<"E","N","V","E","L","O","P","E","_","E","N","V">>
KeyDir == <<"E","N","V","E","L","O","P","E","_","D","I","R">>

\* the directory an environment is read from: <configDir>/<n> where that is
\* a directory (directory mode), else <configDir> (flat mode)
SourceDir(n) ==
    IF IsDirectory(Append(getRootEnvDir, n))
    THEN Append(getRootEnvDir, n)
    ELSE getRootEnvDir

Contains(str, sub) ==
    \E i \in 1..(Len(str) + 1 - Len(sub)) : SubSeq(str, i, i + Len(sub) - 1) = sub

\* the common file or the environment file contains the text key
FilesMention(n, key) ==
    \E i \in 1..Len(SourceLines(n)) : Contains(SourceLines(n)[i], key)

\* a string dotenv.parse returns as it stands: no #, no quote, no white space
PlainText(str) ==
    \A i \in 1..Len(str) : str[i] \notin QuoteChars \cup {"#"} /\ ~IsSpace(str[i])

UseSucceeded == last.op = "use" /\ last.exit = 0

\* what a current invoked now would report
CurrentNow == CurrentIn(getRootDir[2])

C5_FailedUseWritesNothing ==
    [][(last'.op = "use" /\ last'.exit # 0 => fs' = fs)
       /\ (fs' # fs => last'.op = "use" /\ last'.err = NoError)]_vars

\* a use rejected for a malformed line, with the earlier /p/.env still there
C5_Witness ==
    /\ last.op = "use"
    /\ last.exit = 1
    /\ last.err.kind = "InvalidFormat"
    /\ getRootDir[1] = "found"
    /\ RootEnvFile \in DOMAIN fs
    /\ fs[RootEnvFile] = FileNode(OldText)

\* the paths at or below dir
Under(dir) ==
    {q \in DOMAIN fs \cup DOMAIN fs' :
        Len(q) >= Len(dir) /\ SubSeq(q, 1, Len(dir)) = dir}

SameAt(q) ==
    /\ q \in DOMAIN fs <=> q \in DOMAIN fs'
    /\ q \in DOMAIN fs => fs'[q] = fs[q]

\* C6: get, list and current change no file and no directory; a use changes
\* at most <root>/.env, and only when it succeeds; nothing at or below the
\* configuration directory ever changes.
C6_OnlyUseWritesOutput ==
    [][/\ (last'.op \in {"get", "list", "current"} => fs' = fs)
       /\ (last'.op = "use" /\ last'.exit # 0 => fs' = fs)
       /\ (last'.op = "use" /\ last'.exit = 0 =>
              \A q \in (DOMAIN fs \cup DOMAIN fs') \ {RootEnvFile} : SameAt(q))
       /\ (getRootDir[1] = "found" => \A q \in Under(getRootEnvDir) : SameAt(q))
       /\ listing' = listing]_vars

\* a get that compiled an environment and left the earlier /p/.env alone
C6_Witness ==
    /\ last.op = "get"
    /\ last.err = NoError
    /\ last.out # <<>>
    /\ RootEnvFile \in DOMAIN fs
    /\ fs[RootEnvFile] = FileNode(OldText)

\* C7: a successful use of n, from the root or from a directory below it,
\* leaves in <root>/.env exactly the text get n returns, with nothing of the
\* earlier text, and creates no .env in the working directory when that is
\* not the root.
C7_UseWritesCompiledAtRoot ==
    [][last'.op = "use" /\ last'.exit = 0 =>
          /\ RootEnvFile \in DOMAIN fs'
          /\ fs'[RootEnvFile] = [kind |-> "file",
                                 text |-> compileDotEnv(last'.env, TRUE).text]
          /\ compileDotEnv(last'.env, TRUE).err = NoError
          /\ \A q \in (DOMAIN fs \cup DOMAIN fs') \ {RootEnvFile} : SameAt(q)
          /\ cwd # getRootDir[2] => Append(cwd, DotEnvName) \notin DOMAIN fs']_vars

\* a use from the child directory that replaced the earlier /p/.env
C7_Witness ==
    /\ UseSucceeded
    /\ cwd = Child
    /\ getRootDir[2] = Root
    /\ fs[RootEnvFile].text # OldText
    /\ ~Contains(fs[RootEnvFile].text, OldText)
    /\ Append(Child, DotEnvName) \notin DOMAIN fs

\* C8: compiling is repeatable.  Once use n has succeeded, compiling n again
\* gives the text <root>/.env now holds, whether or not notices are logged,
\* and a use of n on a file system whose <root>/.env already holds the
\* compiled text of n changes nothing.
C8_UseTwiceSame ==
    /\ [](UseSucceeded =>
            /\ compileDotEnv(last.env, TRUE).err = NoError
            /\ compileDotEnv(last.env, FALSE).text = compileDotEnv(last.env, TRUE).text
            /\ fs[RootEnvFile] = [kind |-> "file",
                                  text |-> compileDotEnv(last.env, TRUE).text])
    /\ [][/\ last'.op = "use" /\ last'.exit = 0
          /\ RootEnvFile \in DOMAIN fs
          /\ fs[RootEnvFile] = [kind |-> "file",
                                text |-> compileDotEnv(last'.env, TRUE).text]
          => fs' = fs]_vars

\* a use of prod whose compiled text, with a value from each file, is what a
\* second compilation gives
C8_Witness ==
    /\ UseSucceeded
    /\ last.env = Prod
    /\ LinesOfFile(CommonFile) # <<>>
    /\ LinesOfFile(EnvironmentFile(Prod)) # <<>>
    /\ compileDotEnv(Prod, TRUE).text = fs[RootEnvFile].text

\* the layout is not mixed
SingleMode == getRootDir[1] = "found" /\ ~(HasSubdirMarker /\ HasFlatMarker)

SubdirNames ==
    {BaseName(q) : q \in {c \in ConfigChildren :
                            fs[c].kind = "dir" /\ BaseName(c) # NodeModules}}

FlatFileNames ==
    {BaseName(q) : q \in {c \in ConfigChildren :
                            /\ fs[c].kind = "file"
                            /\ Len(BaseName(c)) > 5
                            /\ SubSeq(BaseName(c), 1, 5) = FlatPrefix}}

FlatSuffixes == {SubSeq(name, 6, Len(name)) : name \in FlatFileNames}

\* the entry of the configuration directory a listed name stands for
EntryNamed(name) == IF name \in SubdirNames THEN name ELSE FlatPrefix \o name

\* where readdirSync returns an entry of the configuration directory
PositionOf(entry) ==
    CHOOSE i \in 1..Len(listing[getRootEnvDir]) : listing[getRootEnvDir][i] = entry

\* C9: in a layout that is not mixed, list returns the names of the
\* subdirectories other than node_modules, or else the suffixes of the
\* regular files .env.<suffix>, each once and in the order of the directory
\* listing; the common file .env is not among them.
C9_ListNamesInOrder ==
    last.op = "list" /\ SingleMode =>
        /\ last.err = NoError
        /\ {last.out[i] : i \in 1..Len(last.out)} = SubdirNames \cup FlatSuffixes
        /\ SubdirNames = {} \/ FlatSuffixes = {}
        /\ \A i, j \in 1..Len(last.out) :
              i < j => PositionOf(EntryNamed(last.out[i]))
                         < PositionOf(EntryNamed(last.out[j]))
        /\ \A i \in 1..Len(last.out) : last.out[i] \notin {<<>>, DotEnvName}

\* a flat layout listed with its common file present: prod before dev
C9_Witness ==
    /\ last.op = "list"
    /\ SingleMode
    /\ CommonFile \in DOMAIN fs
    /\ last.out = <<Prod, Dev>>

\* C10 as claimed: in a layout that is not mixed, a name n with a directory
\* <configDir>/<n> resolves to that directory, and a name with neither a
\* directory <configDir>/<n> nor a regular file <configDir>/.env.<n> fails
\* with EnvironmentNotFound naming both paths, for get and for use, and
\* yields no compiled text.
C10_ResolvesOrNotFound ==
    last.op \in {"get", "use"} /\ SingleMode =>
        LET sub  == Append(getRootEnvDir, last.env)
            flat == Append(getRootEnvDir, FlatPrefix \o last.env)
        IN  /\ IsDirectory(sub) =>
                /\ last.err.kind \notin {"EnvironmentNotFound", "IncompatibleModes",
                                         "ConfigNotFound"}
                /\ EnvDirOf(ResolveEnv(getRootEnvDir, last.env), getRootEnvDir) = sub
            /\ ~IsDirectory(sub) /\ ~(flat \in DOMAIN fs /\ fs[flat].kind = "file") =>
                /\ last.err = EnvironmentNotFound(last.env, sub, flat)
                /\ last.out = <<>>
                /\ last.op = "use" => last.exit = 1

\* the start directory and the directories above it
Ancestors == {SubSeq(cwd, 1, k) : k \in 0..Len(cwd)}

\* those of them that hold a directory named env
RootCandidates ==
    {d \in Ancestors : Append(d, EnvDirName) \in DOMAIN fs
                       /\ fs[Append(d, EnvDirName)].kind = "dir"}

NearestRoot ==
    CHOOSE d \in RootCandidates : \A e \in RootCandidates : Len(e) <= Len(d)

\* C11: from every start directory the root search returns the nearest of
\* the start directory and its ancestors that holds a directory named env (a
\* regular file named env does not count); where there is none, list, get,
\* use and current all fail with ConfigNotFound and nothing is written, and
\* where there is one, none of them fails with ConfigNotFound.
C11_NearestRootOrConfigNotFound ==
    /\ [](/\ RootCandidates = {} => getRootDir = <<"none">>
          /\ RootCandidates # {} => getRootDir = <<"found", NearestRoot>>
          /\ last.op # "none" =>
                (last.err = ConfigNotFound <=> RootCandidates = {}))
    /\ [][RootCandidates = {} => fs' = fs]_vars

\* a use from /p/c, where env is a regular file, that wrote /p/.env
C11_Witness ==
    /\ UseSucceeded
    /\ cwd = Child
    /\ Append(Child, EnvDirName) \in DOMAIN fs
    /\ fs[Append(Child, EnvDirName)].kind = "file"
    /\ getRootDir = <<"found", Root>>
    /\ Append(Root, DotEnvName) \in DOMAIN fs

\* the line grammar, read off a line as it stands
BlankLine(line) == \A i \in 1..Len(line) : IsSpace(line[i])

CommentLine(line) ==
    \E i \in 1..Len(line) : line[i] = "#" /\ \A j \in 1..(i - 1) : IsSpace(line[j])

Letter(c) == c \in LowerChars \cup UpperChars \cup {"_"}

\* white space, an identifier from i to k, white space, and = at e
AssignmentLine(line) ==
    \E e \in 1..Len(line) :
        /\ line[e] = "="
        /\ \A j \in 1..(e - 1) : line[j] # "="
        /\ \E i \in 1..(e - 1) : \E k \in i..(e - 1) :
              /\ \A j \in 1..(i - 1) : IsSpace(line[j])
              /\ Letter(line[i])
              /\ \A j \in (i + 1)..k : Letter(line[j]) \/ line[j] \in DigitChars
              /\ \A j \in (k + 1)..(e - 1) : IsSpace(line[j])

BadLines(lines) ==
    {i \in 1..Len(lines) :
        ~(BlankLine(lines[i]) \/ CommentLine(lines[i]) \/ AssignmentLine(lines[i]))}

FirstBad(lines) == CHOOSE i \in BadLines(lines) : \A j \in BadLines(lines) : i <= j

\* the outcome validation must have on a text of these lines
ValidatedAs(lines, err) ==
    /\ BadLines(lines) = {} <=> err.kind # "InvalidFormat"
    /\ BadLines(lines) # {} =>
          err = [kind |-> "InvalidFormat",
                 args |-> <<FirstBad(lines), Trim(lines[FirstBad(lines)])>>]

\* the environment resolves and its files can be read
Readable(n) ==
    /\ getRootDir[1] = "found"
    /\ ~MixedLayout
    /\ IsDirectory(Append(getRootEnvDir, n))
          \/ Append(getRootEnvDir, FlatPrefix \o n) \in DOMAIN fs
    /\ \A q \in {CommonFile, EnvironmentFile(n)} : q \in DOMAIN fs => fs[q].kind = "file"

\* the lines of the text compiled for n: the two synthetic lines, the empty
\* line that ends the seed, the common file, the environment file
MergedLines(n) ==
    << KeyEnv \o <<"=">> \o n, KeyDir \o <<"=">> \o PathStr(SourceDir(n)), <<>> >>
        \o SourceLines(n)

\* C12: validation succeeds exactly when every line of the text is blank, a
\* comment or an assignment, and otherwise fails with InvalidFormat naming
\* the 1-based number of the first offending line, counted in the whole
\* merged text, and its trimmed content; for the text get and use compile
\* and for the <root>/.env that current reads.
C12_ValidationByLine ==
    /\ last.op \in {"get", "use"} /\ Readable(last.env)
          => ValidatedAs(MergedLines(last.env), last.err)
    /\ last.op = "current" /\ getRootDir[1] = "found" /\ LinesOfFile(RootEnvFile) # <<>>
          => ValidatedAs(LinesOfFile(RootEnvFile), last.err)

\* a get rejected for the sixth line of its merged text, the second line of
\* the environment file after an empty common file
C12_Witness ==
    /\ last.op = "get"
    /\ Readable(last.env)
    /\ LinesOfFile(CommonFile) = << <<>> >>
    /\ Len(LinesOfFile(EnvironmentFile(last.env))) = 2
    /\ last.err.kind = "InvalidFormat"
    /\ last.err.args[1] = 6

\* <root>/.env is there as a regular file
OutputPresent == RootEnvFile \in DOMAIN fs /\ fs[RootEnvFile].kind = "file"

NoEnvEntry == \A i \in 1..Len(LinesOfFile(RootEnvFile)) :
                  ~Assigns(LinesOfFile(RootEnvFile), i, KeyEnv)

\* C13 as claimed: current fails exactly when <root>/.env is absent, has a
\* malformed line or has no ENVELOPE_ENV entry, and otherwise returns the
\* value of ENVELOPE_ENV parsed from it.
C13_CurrentFailsExactly ==
    last.op = "current" /\ getRootDir[1] = "found" =>
        /\ last.err # NoError <=>
              \/ ~OutputPresent
              \/ BadLines(LinesOfFile(RootEnvFile)) # {}
              \/ NoEnvEntry
        /\ last.err = NoError =>
              last.out = GetKey(DotenvParse(fs[RootEnvFile].text), KeyEnv)

\* C13, amended: where a root is found, current fails exactly when
\* <root>/.env is no regular file, has a malformed line, or parses to a
\* mapping in which ENVELOPE_ENV is missing or empty; otherwise it returns
\* the parsed value of ENVELOPE_ENV, the last assignment if there are several.
C13_CurrentFailsOnEmptyToo ==
    last.op = "current" /\ getRootDir[1] = "found" =>
        /\ last.err # NoError <=>
              \/ ~OutputPresent
              \/ BadLines(LinesOfFile(RootEnvFile)) # {}
              \/ ~HasKey(DotenvParse(fs[RootEnvFile].text), KeyEnv)
              \/ GetKey(DotenvParse(fs[RootEnvFile].text), KeyEnv) = <<>>
        /\ OutputPresent /\ NoEnvEntry => last.err # NoError
        /\ last.err = NoError =>
              /\ last.out = GetKey(DotenvParse(fs[RootEnvFile].text), KeyEnv)
              /\ last.exit = 0
              /\ ~NoEnvEntry
              /\ PlainText(LastAssigned(LinesOfFile(RootEnvFile), KeyEnv))
                    => last.out = LastAssigned(LinesOfFile(RootEnvFile), KeyEnv)

\* current on a file that assigns ENVELOPE_ENV twice, returning the second
C13_Witness ==
    /\ last.op = "current"
    /\ getRootDir[1] = "found"
    /\ OutputPresent
    /\ Len(LinesOfFile(RootEnvFile)) = 2
    /\ Assigns(LinesOfFile(RootEnvFile), 1, KeyEnv)
    /\ Assigns(LinesOfFile(RootEnvFile), 2, KeyEnv)
    /\ last.out = <<"b">>

\* C14 as claimed: the text compiled for an environment parses back to the
\* mapping it was serialized from, same keys, values and order, and passes
\* line validation.
C14_RoundTrip ==
    Compiled =>
        /\ DotenvParse(CompiledText) = getCompiledEnv(last.env, TRUE).obj
        /\ BadLines(SplitLines(CompiledText)) = {}

\* the notices of the contributing files that exist, common file first
ReadingNotices(n) ==
    (IF CommonFile \in DOMAIN fs
     THEN << <<"Reading", <<"common">>, PathStr(CommonFile)>> >> ELSE <<>>)
    \o (IF EnvironmentFile(n) \in DOMAIN fs
        THEN << <<"Reading", n, PathStr(EnvironmentFile(n))>> >> ELSE <<>>)

\* C15: the silent flag changes nothing but the notices.  Whatever a get or
\* a use does, the same invocation with the flag inverted would fail or
\* succeed alike, compile the same text and leave the same <root>/.env; a
\* silent invocation emits no notice, and one that is not silent emits one
\* notice for each contributing file that exists, also when validation then
\* fails.
C15_SilentOnlyHidesNotices ==
    [][last'.op \in {"get", "use"} =>
          LET other == compileDotEnv(last'.env, ~last'.silent)
          IN  /\ last'.op = "get" => last'.err = other.err /\ last'.out = other.text
              /\ last'.op = "use" /\ other.err # NoError
                    => last'.err = other.err /\ fs' = fs
              /\ last'.op = "use" /\ other.err = NoError
                    => /\ last'.err.kind \in {"none", "EISDIR"}
                       /\ last'.err = NoError => fs'[RootEnvFile].text = other.text
              /\ last'.silent =>
                    /\ last'.notices = <<>>
                    /\ Readable(last'.env) => other.notices = ReadingNotices(last'.env)
              /\ ~last'.silent =>
                    /\ other.notices = <<>>
                    /\ Readable(last'.env) =>
                          SelectSeq(last'.notices, LAMBDA x : x[1] = "Reading")
                             = ReadingNotices(last'.env)]_vars

\* a silent use that compiled a common and an environment file without notice
C15_Witness ==
    /\ UseSucceeded
    /\ last.silent
    /\ last.notices = <<>>
    /\ CommonFile \in DOMAIN fs
    /\ EnvironmentFile(last.env) \in DOMAIN fs
    /\ Len(SplitLines(fs[RootEnvFile].text)) >= 3

\* the last invocation got past mode detection and resolution, and compiled
\* unless a line of the merged text is malformed or <root>/.env is a directory
Served(n) ==
    /\ last.err.kind \notin {"IncompatibleModes", "EnvironmentNotFound", "ConfigNotFound"}
    /\ BadLines(MergedLines(n)) = {} /\ ~IsDirectory(RootEnvFile) => last.err = NoError

\* C16: IncompatibleModes is raised only in a mixed layout.  node_modules
\* next to .env.<name> files is flat: list returns the flat names only, and
\* get and use of a flat name succeed.  The common file .env next to
\* subdirectories is directory mode: list returns the subdirectories, and
\* get and use of one of them succeed.
C16_OnlyRealConflicts ==
    /\ last.err.kind = "IncompatibleModes" => MixedLayout
    /\ /\ getRootDir[1] = "found"
       /\ IsDirectory(Append(getRootEnvDir, NodeModules))
       /\ SubdirNames = {}
       /\ FlatSuffixes # {}
       => /\ last.op = "list" =>
                /\ last.err = NoError
                /\ {last.out[i] : i \in 1..Len(last.out)} = FlatSuffixes
          /\ last.op \in {"get", "use"} /\ last.env \in FlatSuffixes => Served(last.env)
    /\ /\ getRootDir[1] = "found"
       /\ CommonFile \in DOMAIN fs
       /\ SubdirNames # {}
       /\ FlatSuffixes = {}
       => /\ last.op = "list" =>
                /\ last.err = NoError
                /\ {last.out[i] : i \in 1..Len(last.out)} = SubdirNames
          /\ last.op \in {"get", "use"} /\ last.env \in SubdirNames => Served(last.env)

\* a use of prod that succeeded next to node_modules and the common file
C16_Witness ==
    /\ UseSucceeded
    /\ last.env = Prod
    /\ IsDirectory(Append(getRootEnvDir, NodeModules))
    /\ CommonFile \in DOMAIN fs
    /\ FlatSuffixes = {Prod}

\* the keys of the lines key=value of a compiled text, in order
TextKeys(text) ==
    [i \in 1..Len(SplitLines(text)) |->
        SubSeq(SplitLines(text)[i], 1, IndexFrom(SplitLines(text)[i], "=", 1) - 1)]

\* the keys the common file and the environment file assign
SourceKeys(n) ==
    {AssignedKey(SourceLines(n)[i]) :
        i \in {j \in 1..Len(SourceLines(n)) : IsAssignment(SourceLines(n)[j])}}

\* C17: the common file and the environment's own file are optional.  An
\* environment that resolves compiles whether or not they exist; the
\* compiled keys are the two synthetic keys and the keys of the files that
\* exist, the common file's among them in directory and in flat mode; with
\* neither file the text is the two synthetic lines.
C17_SourceFilesOptional ==
    /\ last.op \in {"get", "use"} /\ Readable(last.env) => Served(last.env)
    /\ Compiled =>
          /\ {TextKeys(CompiledText)[i] : i \in 1..Len(TextKeys(CompiledText))}
                = {KeyEnv, KeyDir} \cup SourceKeys(last.env)
          /\ SourceLines(last.env) = <<>> => Len(SplitLines(CompiledText)) = 2

\* an environment directory without a file of its own and without a common
\* file, compiled to the two synthetic lines
C17_Witness ==
    /\ Compiled
    /\ last.env = Sharp
    /\ CommonFile \notin DOMAIN fs
    /\ EnvironmentFile(Sharp) \notin DOMAIN fs
    /\ TextKeys(CompiledText) = <<KeyEnv, KeyDir>>

\* where a compiled key is first assigned: ENVELOPE_ENV and ENVELOPE_DIR by
\* the seed, any other key by a line of the common or the environment file
FirstAssigned(n, key) ==
    IF key = KeyEnv THEN 1
    ELSE IF key = KeyDir THEN 2
    ELSE 2 + (CHOOSE i \in 1..Len(SourceLines(n)) :
                /\ Assigns(SourceLines(n), i, key)
                /\ \A j \in 1..(i - 1) : ~Assigns(SourceLines(n), j, key))

\* C18: the compiled text has one line key=value for each key, with the
\* value of the key's last assignment, in the order in which the keys are
\* first assigned: ENVELOPE_ENV, ENVELOPE_DIR, the keys of the common file in
\* file order, then the keys only the environment file has, in file order.
C18_OneLinePerKeyInOrder ==
    Compiled =>
        LET keys == TextKeys(CompiledText)
        IN  /\ Len(keys) >= 2 /\ keys[1] = KeyEnv /\ keys[2] = KeyDir
            /\ \A a, b \in 1..Len(keys) : a # b => keys[a] # keys[b]
            /\ \A a \in 1..Len(keys) : keys[a] \in {KeyEnv, KeyDir} \cup SourceKeys(last.env)
            /\ Len(keys) = Cardinality({KeyEnv, KeyDir} \cup SourceKeys(last.env))
            /\ \A a, b \in 1..Len(keys) :
                  a < b => FirstAssigned(last.env, keys[a]) < FirstAssigned(last.env, keys[b])
            /\ \A a \in 1..Len(keys) :
                  keys[a] \in SourceKeys(last.env) =>
                     SplitLines(CompiledText)[a]
                        = keys[a] \o <<"=">> \o LastAssigned(SourceLines(last.env), keys[a])

\* a key of the common file compiled after the synthetic keys, though the
\* environment file assigns ENVELOPE_ENV after it
C18_Witness ==
    /\ Compiled
    /\ TextKeys(CompiledText) = <<KeyEnv, KeyDir, <<"A">> >>
    /\ Len(LinesOfFile(CommonFile)) = 1
    /\ Assigns(LinesOfFile(CommonFile), 1, <<"A">>)
    /\ Len(LinesOfFile(EnvironmentFile(last.env))) = 1
    /\ Assigns(LinesOfFile(EnvironmentFile(last.env)), 1, KeyEnv)

\* C19 as claimed: a configuration directory with no subdirectory other
\* than node_modules and no file .env.<suffix> has no environments: list
\* returns the empty list without error, and get and use of any name fail
\* with EnvironmentNotFound.
C19_NoMarkersNoEnvironments ==
    getRootDir[1] = "found" /\ SubdirNames = {} /\ FlatSuffixes = {} =>
        /\ last.op = "list" => last.err = NoError /\ last.out = <<>>
        /\ last.op \in {"get", "use"} =>
              /\ last.err.kind = "EnvironmentNotFound"
              /\ last.out = <<>>

\* C19, amended: in such a configuration directory list returns the empty
\* list without error, and get and use of a name n fail with
\* EnvironmentNotFound unless <configDir>/<n> is a directory, as it is for
\* the name node_modules where that directory exists.
C19_NoMarkersOnlyDirectoriesResolve ==
    getRootDir[1] = "found" /\ SubdirNames = {} /\ FlatSuffixes = {} =>
        /\ last.op = "list" => last.err = NoError /\ last.out = <<>>
        /\ last.op \in {"get", "use"} =>
              IF IsDirectory(Append(getRootEnvDir, last.env))
              THEN Served(last.env)
              ELSE /\ last.err = EnvironmentNotFound(last.env,
                                     Append(getRootEnvDir, last.env),
                                     Append(getRootEnvDir, FlatPrefix \o last.env))
                   /\ last.out = <<>>

\* a get of dev refused where the configuration directory holds only the
\* common file and node_modules
C19_Witness ==
    /\ last.op = "get"
    /\ last.env = Dev
    /\ last.err.kind = "EnvironmentNotFound"
    /\ SubdirNames = {}
    /\ FlatSuffixes = {}
    /\ CommonFile \in DOMAIN fs
    /\ IsDirectory(Append(getRootEnvDir, NodeModules))

\* C20 as claimed: a name n without a directory <configDir>/<n> resolves in
\* flat mode only if <configDir>/.env.<n> is a regular file, and then with
\* <configDir> as its directory and that file as its own source; if the
\* file is absent or no regular file, get and use fail with
\* EnvironmentNotFound.
C20_FlatNeedsRegularFile ==
    /\ last.op \in {"get", "use"}
    /\ SingleMode
    /\ ~IsDirectory(Append(getRootEnvDir, last.env))
    => LET flat == Append(getRootEnvDir, FlatPrefix \o last.env)
           r    == ResolveEnv(getRootEnvDir, last.env)
       IN  IF flat \in DOMAIN fs /\ fs[flat].kind = "file"
           THEN /\ Served(last.env)
                /\ EnvDirOf(r, getRootEnvDir) = getRootEnvDir
                /\ EnvFiles(r, getRootEnvDir, last.env)[2].path = flat
           ELSE last.err.kind = "EnvironmentNotFound"

\* the names list returns on the file system as it is now
ListedNames ==
    IF getRootDir[1] = "found" /\ assertSingleEnvMode(getRootEnvDir)
    THEN {Environments(getRootEnvDir)[i] :
             i \in 1..Len(Environments(getRootEnvDir))}
    ELSE {}

\* the form a name resolves in agrees with the markers of the layout
FormIsLayoutMode(n) ==
    LET r == ResolveEnv(getRootEnvDir, n)
    IN  /\ r.isDirectoryMode => HasSubdirMarker /\ ~HasFlatMarker
        /\ r.isFlatMode => HasFlatMarker /\ ~HasSubdirMarker

\* C21 as claimed: a name that get or use compiles is one of the names list
\* returns on the same file system, and it resolves in the form of the
\* layout (subdirectory in a directory layout, flat file in a flat one);
\* every name list returns resolves: get of it does not fail with
\* EnvironmentNotFound.
C21_ListAndResolveAgree ==
    /\ Compiled =>
          /\ last.env \in ListedNames
          /\ FormIsLayoutMode(last.env)
    /\ last.op = "list" /\ last.err = NoError =>
          \A i \in 1..Len(last.out) :
              getCompiledEnv(last.out[i], TRUE).err.kind # "EnvironmentNotFound"

\* C21, amended: the same for every name other than node_modules, which
\* list never returns as a subdirectory but get and use resolve to the
\* directory <configDir>/node_modules where it exists.
C21_ListAndResolveAgreeButReserved ==
    /\ Compiled /\ ~(last.env = NodeModules /\ IsDirectory(Append(getRootEnvDir, NodeModules))) =>
          /\ last.env \in ListedNames
          /\ FormIsLayoutMode(last.env)
    /\ last.op = "list" /\ last.err = NoError =>
          \A i \in 1..Len(last.out) :
              /\ getCompiledEnv(last.out[i], TRUE).err.kind
                    \notin {"EnvironmentNotFound", "IncompatibleModes", "ConfigNotFound"}
              /\ FormIsLayoutMode(last.out[i]) \/ last.out[i] = NodeModules

\* a get of prod compiled from the flat file .env.prod, which list returns
\* second, after dev
C21_Witness ==
    /\ Compiled
    /\ last.op = "get"
    /\ last.env = Prod
    /\ ResolveEnv(getRootEnvDir, Prod).isFlatMode
    /\ HasFlatMarker
    /\ Environments(getRootEnvDir) = <<Dev, Prod>>

\* the regular files below the configuration directory
ConfigFiles ==
    {q \in DOMAIN fs : /\ fs[q].kind = "file"
                       /\ Len(q) > Len(getRootEnvDir)
                       /\ SubSeq(q, 1, Len(getRootEnvDir)) = getRootEnvDir}

\* no common file and no environment file assigns key
NoFileAssigns(key) ==
    \A q \in ConfigFiles :
        \A i \in 1..Len(LinesOfFile(q)) : ~Assigns(LinesOfFile(q), i, key)

\* current succeeding with the name n
CurrentReports(n) == Result("current", <<>>, FALSE, 0, NoError, n, <<>>)

\* what current answers wherever it is invoked below a root: it fails for
\* want of an output file while <root>/.env is absent, and an invocation
\* of current displays the answer the file system holds
CurrentReadsOutput ==
    getRootDir[1] = "found" =>
        /\ ~existsSync(RootEnvFile) =>
              CurrentNow = Result("current", <<>>, FALSE, 1, NoOutputFile, <<>>, <<>>)
        /\ last.op = "current" => last = CurrentNow

====
